---- MODULE Spec2Model ----
(***************************************************************************)
(* LocalImageFlowServer: the LAN rendezvous-and-relay server.              *)
(*                                                                         *)
(* The server keeps two maps, clients (clientId -> info) and rooms         *)
(* (roomId -> room), and mutates them from WebSocket event handlers that   *)
(* each run to completion.  Every action below is one such handler, or one *)
(* step of the environment (a socket leaving the OPEN state).              *)
(*                                                                         *)
(* src/unnamed/part_002 and src/unnamed/part_003 hold the same server; the *)
(* handlers are translated from part_002.  ws.send on a socket that is not *)
(* OPEN transmits nothing.                                                 *)
(***************************************************************************)
EXTENDS Integers, Sequences, FiniteSets, TLC

(* ------------------------------ bounds -------------------------------- *)
\* connections accepted over the lifetime of the process
MaxClients == 2
\* room ids produced by generateRoomId over the lifetime of the process
MaxCreated == 1
\* distinct non-empty room id strings clients put in join-room
NumNames == 1
\* inbound message events handled over the lifetime of the process
MaxMsgs == 2
\* largest totalChunks a transfer declares
MaxChunks == 3
\* transfer messages a receiving page is given over its lifetime
MaxRx == 4
\* file-transfer frames whose deliveries are kept in the order they were sent
MaxRelayed == 2
\* Peer objects the page makes
MaxPeers == 5
\* WebSocket objects the page makes
MaxSockets == 2

(* ------------------------------ values -------------------------------- *)
\* Ids are pairs <<kind, n>> so that any two of them can be compared.
\* JavaScript null (client.room before any join, excludeClient's default)
NULL == <<"null", 0>>
\* the empty string "" used as a roomId: a legal Map key that is falsy
EMPTY == <<"name", 0>>

ClientIds == {<<"client", i>> : i \in 1..MaxClients}
NamedRooms == {<<"name", i>> : i \in 1..NumNames}
GenRooms == {<<"gen", i>> : i \in 1..MaxCreated}
RoomIds == {EMPTY} \cup NamedRooms \cup GenRooms
\* the port the server is constructed with, and the address getLocalIP finds
Port == 8080
LocalIP == "127.0.0.1"

\* roomName values clients put in create-room
RoomNames == {"demo"}

\* JavaScript undefined: what reading an absent property of an object gives
UNDEFINED == <<"undefined", 0>>

\* JavaScript truthiness of a value held in client.room / data.roomId /
\* data.targetClient
Truthy(v) == v \notin {NULL, EMPTY, UNDEFINED}

\* Map.delete(k)
MapDelete(m, k) == [x \in DOMAIN m \ {k} |-> m[x]]
\* Map.set(k, v)
MapSet(m, k, v) == [x \in DOMAIN m \cup {k} |-> IF x = k THEN v ELSE m[x]]

\* A JavaScript object is a function from its property names to their values.
\* obj.f for an id-valued property f
Field(obj, f) == IF f \in DOMAIN obj THEN obj[f] ELSE UNDEFINED
\* obj.type === t
HasType(obj, t) == "type" \in DOMAIN obj /\ obj.type = t
\* { ...a, ...b }: the properties of b override those of a
ObjSpread(a, b) == [f \in DOMAIN a \cup DOMAIN b |->
                      IF f \in DOMAIN b THEN b[f] ELSE a[f]]

\* The value JSON.parse gives for the text "null", kept apart from every object
JSNull == [null |-> TRUE]
IsNull(v) == "null" \in DOMAIN v
\* The value JSON.parse gives for a number, string or boolean: it has no
\* properties of its own, so every property read gives undefined
Primitive == [f \in {} |-> UNDEFINED]

\* Inbound frames, by what message.toString() holds: text that is not JSON,
\* the JSON texts null and 5, or the JSON text of an object
Frame(syntax, value) == [syntax |-> syntax, value |-> value]
GarbageFrame == Frame("invalid", Primitive)
NullFrame == Frame("null", Primitive)
NumberFrame == Frame("number", Primitive)
\* JSON.stringify(obj) as the peer sends it
JSONstringify(obj) == Frame("object", obj)
\* JSON.parse(text): throws SyntaxError on text that is not JSON
JSONparse(frame) ==
  CASE frame.syntax = "invalid" -> [threw |-> TRUE, value |-> Primitive]
    [] frame.syntax = "null" -> [threw |-> FALSE, value |-> JSNull]
    [] frame.syntax = "number" -> [threw |-> FALSE, value |-> Primitive]
    [] OTHER -> [threw |-> FALSE, value |-> frame.value]

VARIABLES
  clients,      \* this.clients : clientId -> [room]
  rooms,        \* this.rooms   : roomId -> [clients, name, creator]
  readyState,   \* ws.readyState of every connection: "NONE" before it exists
  pending,      \* socket events not yet emitted, per connection
  firstSent,    \* per connection, the first message ws.send transmitted on it
  welcomes,     \* per connection, the number of welcome messages transmitted
  nextClient,   \* number of client ids generated so far
  nextRoom,     \* number of room ids generated so far
  handled,      \* number of inbound message events handled so far
  sent,         \* per connection, the messages transmitted by the last handler
  last,         \* the last handler run: [op, client, roomId]
  pre,          \* clients, rooms and readyState as the last handler found them
  cleaned,      \* connections for which handleClientDisconnect has run
  deleted,      \* room ids removed from the room map so far
  lastJoin,     \* per client, the room of its latest join-room not yet undone
  inbound,      \* the frame the last handler was given, NoFrame if it had none
  uncaught,     \* an exception has escaped a 'message' listener
  relays,       \* number of file-transfer frames handled so far, up to MaxRelayed
  outbox,       \* per connection, the file-transfer frames relayed to it, each by
                \* its number, in the order the socket transmitted them
  httpResponse, \* the HTTP response written last, NoResponse before any request
  dropped,      \* per connection, the numbers of the file-transfer frames it was a
                \* recipient of while its socket was not OPEN
  activeTransfers,  \* the page's this.activeTransfers : transferId -> session
  mapCreated,   \* this.activeTransfers has been assigned a Map
  downloads,    \* the download links the last receiving handler clicked
  rx,           \* the last receiving handler run: its message, and what it found
  rxHandled,    \* number of transfer messages the page has been given
  intact,       \* per transfer id: since its start message, every chunk message
                \* had an index of its own in range, and isLast on the last one
  completions,  \* per transfer id: completions since its latest start message
  controls,     \* per name, the progress elements of that name in the document
  cancelled,    \* per transfer id: its progress control was used to cancel it,
                \* and no start message for it has come since
  left,         \* the clients the server has told the page have left
  tx,           \* the transfer the page is sending: where its loop stands, what it
                \* has sent, which sends were slow, and how it ended
  conn          \* the page's connections: the WebSocket and Peer objects it has
                \* made, this.ws, this.peer, this.retryCount, its timers, the
                \* status it shows, and what its handlers have done so far

\* the server's variables, and the receiving page's
serverVars == <<clients, rooms, readyState, pending, firstSent, welcomes, nextClient,
                nextRoom, handled, sent, last, pre, cleaned, deleted, lastJoin,
                inbound, uncaught, relays, outbox, dropped, httpResponse>>
pageVars == <<activeTransfers, mapCreated, downloads, rx, rxHandled, intact,
              completions, controls, cancelled, left>>
senderVars == <<tx, conn>>
vars == <<serverVars, pageVars, senderVars>>

NoSent == [c \in ClientIds |-> <<>>]
\* no message yet
NoMsg == [type |-> "none"]
\* number of messages of one type in a sequence of messages
Count(q, t) == Cardinality({i \in 1..Len(q) : q[i].type = t})

\* no HTTP response written
NoResponse == [kind |-> "none"]

\* The server state a handler works on.
\* threw: an exception is propagating out of the handler
\* response: what the handler wrote to its HTTP response object
Server == [clients |-> clients, rooms |-> rooms, sent |-> NoSent,
           readyState |-> readyState, nextRoom |-> nextRoom, threw |-> FALSE,
           response |-> NoResponse]
\* no frame
NoFrame == Frame("none", Primitive)

(* --------------------------- the server code --------------------------- *)
\* ws.send(JSON.stringify(msg)) on connection id: transmitted iff the socket is OPEN
wsSend(S, id, msg) ==
  IF S.readyState[id] = "OPEN"
  THEN [S EXCEPT !.sent[id] = Append(@, msg)]
  ELSE S

\* broadcastToRoom ignoring excludeClient
broadcastToRoom_NoExclude(S, roomId, message, excludeClient) ==
  IF roomId \notin DOMAIN S.rooms THEN S
  ELSE LET to == {id \in S.rooms[roomId].clients :
                    /\ id \in DOMAIN S.clients
                    /\ S.readyState[id] = "OPEN"}
       IN [S EXCEPT !.sent = [c \in DOMAIN @ |->
                                  IF c \in to THEN Append(@[c], message) ELSE @[c]]]

\* broadcastToRoom sending to members whatever the state of their socket
broadcastToRoom_AnyState(S, roomId, message, excludeClient) ==
  IF roomId \notin DOMAIN S.rooms THEN S
  ELSE LET to == {id \in S.rooms[roomId].clients :
                    /\ id # excludeClient
                    /\ id \in DOMAIN S.clients}
       IN [S EXCEPT !.sent = [c \in DOMAIN @ |->
                                  IF c \in to THEN Append(@[c], message) ELSE @[c]]]

broadcastToRoom(S, roomId, message, excludeClient) ==
  IF roomId \notin DOMAIN S.rooms THEN S
  ELSE LET to == {id \in S.rooms[roomId].clients :
                    /\ id # excludeClient
                    /\ id \in DOMAIN S.clients
                    /\ S.readyState[id] = "OPEN"}
       IN [S EXCEPT !.sent = [c \in DOMAIN @ |->
                                  IF c \in to THEN Append(@[c], message) ELSE @[c]]]

\* leaveRoom keeping the room when its last member leaves
leaveRoom_NoDelete(S, clientId, roomId) ==
  IF roomId \notin DOMAIN S.rooms THEN S
  ELSE LET members == S.rooms[roomId].clients \ {clientId}
       IN broadcastToRoom([S EXCEPT !.rooms[roomId].clients = members], roomId,
                          [type |-> "client-left", clientId |-> clientId,
                           roomClients |-> members], NULL)

leaveRoom(S, clientId, roomId) ==
  IF roomId \notin DOMAIN S.rooms THEN S
  ELSE LET members == S.rooms[roomId].clients \ {clientId}
       IN IF members = {}
          THEN [S EXCEPT !.rooms = MapDelete(@, roomId)]
          ELSE broadcastToRoom([S EXCEPT !.rooms[roomId].clients = members], roomId,
                               [type |-> "client-left", clientId |-> clientId,
                                roomClients |-> members], NULL)

JoinRoomWith(S, clientId, roomId, snapshot(_, _)) ==
  IF clientId \notin DOMAIN S.clients THEN S
  ELSE
    LET S1 == IF Truthy(S.clients[clientId].room)
              THEN leaveRoom(S, clientId, S.clients[clientId].room)
              ELSE S
        S2 == IF roomId \notin DOMAIN S1.rooms
              THEN [S1 EXCEPT !.rooms = MapSet(@, roomId,
                       [clients |-> {}, name |-> "", creator |-> NULL])]
              ELSE S1
        S3 == [S2 EXCEPT !.rooms[roomId].clients = @ \cup {clientId},
                         !.clients[clientId].room = roomId]
        S4 == broadcastToRoom(S3, roomId,
                 [type |-> "client-joined", clientId |-> clientId,
                  roomClients |-> S3.rooms[roomId].clients], clientId)
    IN wsSend(S4, clientId,
              [type |-> "room-joined", roomId |-> roomId,
               clients |-> snapshot(S4, roomId)])

\* handleJoinRoom replying with the member list unfiltered
handleJoinRoom_NoFilter(S, clientId, roomId) ==
  LET all(T, r) == T.rooms[r].clients
  IN JoinRoomWith(S, clientId, roomId, all)

\* handleJoinRoom replying with the registry's other clients instead of the room's
handleJoinRoom_ListAll(S, clientId, roomId) ==
  LET others(T, r) == DOMAIN T.clients \ {clientId}
  IN JoinRoomWith(S, clientId, roomId, others)

handleJoinRoom(S, clientId, roomId) ==
  IF clientId \notin DOMAIN S.clients THEN S
  ELSE
    LET S1 == IF Truthy(S.clients[clientId].room)
              THEN leaveRoom(S, clientId, S.clients[clientId].room)
              ELSE S
        S2 == IF roomId \notin DOMAIN S1.rooms
              THEN [S1 EXCEPT !.rooms = MapSet(@, roomId,
                       [clients |-> {}, name |-> "", creator |-> NULL])]
              ELSE S1
        S3 == [S2 EXCEPT !.rooms[roomId].clients = @ \cup {clientId},
                         !.clients[clientId].room = roomId]
        S4 == broadcastToRoom(S3, roomId,
                 [type |-> "client-joined", clientId |-> clientId,
                  roomClients |-> S3.rooms[roomId].clients], clientId)
    IN wsSend(S4, clientId,
              [type |-> "room-joined", roomId |-> roomId,
               clients |-> S4.rooms[roomId].clients \ {clientId}])

\* Date.now() + Math.random() suffix: an id not produced before
generateRoomId(S) == <<"gen", S.nextRoom + 1>>

\* generateQRData leaving the room out
generateQRData_NoRoom(S, roomId) ==
  [serverIP |-> LocalIP, port |-> Port, roomId |-> NULL,
   url |-> <<"http://", LocalIP, Port, "/?room=", NULL>>]

generateQRData(S, roomId) ==
  [serverIP |-> LocalIP, port |-> Port, roomId |-> roomId,
   url |-> <<"http://", LocalIP, Port, "/?room=", roomId>>]

handleCreateRoom(S, clientId, roomName) ==
  LET roomId == generateRoomId(S)
      S1 == [S EXCEPT !.nextRoom = @ + 1,
                      !.rooms = MapSet(@, roomId,
                         [clients |-> {clientId},
                          name |-> IF roomName # "" THEN roomName ELSE "Room",
                          creator |-> clientId])]
  IN IF clientId \in DOMAIN S1.clients
     THEN wsSend([S1 EXCEPT !.clients[clientId].room = roomId], clientId,
                 [type |-> "room-created", roomId |-> roomId, name |-> roomName,
                  qrData |-> generateQRData(S1, roomId)])
     ELSE S1

handleClientDisconnect(S, clientId) ==
  LET S1 == IF clientId \in DOMAIN S.clients /\ Truthy(S.clients[clientId].room)
            THEN leaveRoom(S, clientId, S.clients[clientId].room)
            ELSE S
  IN [S1 EXCEPT !.clients = MapDelete(@, clientId)]

\* the sender's id is written first and data is spread over it
handleWebRTCSignaling(S, clientId, data) ==
  IF clientId \notin DOMAIN S.clients \/ ~Truthy(S.clients[clientId].room) THEN S
  ELSE broadcastToRoom(S, S.clients[clientId].room,
                       ObjSpread([type |-> data.type, from |-> clientId], data),
                       clientId)

\* the paths of the status endpoint, and the path of a static file
StatusUrls == {"/api/status", "/api/status/"}
Urls == StatusUrls \cup {"/"}
\* what fs.readFile calls back with for a static file: its data, or ENOENT
FileResults == {200, 404}

\* handleHttpRequest reporting the sockets that are open instead of the registry
handleHttpRequest_CountOpen(S, url, fileResult) ==
  IF url \in StatusUrls
  THEN [S EXCEPT !.response =
          [kind |-> "status", code |-> 200, status |-> "running",
           ip |-> LocalIP, port |-> Port,
           clients |-> Cardinality({c \in DOMAIN S.clients : S.readyState[c] = "OPEN"}),
           rooms |-> Cardinality(DOMAIN S.rooms)]]
  ELSE [S EXCEPT !.response = [kind |-> "file", code |-> fileResult]]

\* the status endpoint answers from the sizes of the two maps; any other path
\* is served as a static file
handleHttpRequest(S, url, fileResult) ==
  IF url \in StatusUrls
  THEN [S EXCEPT !.response =
          [kind |-> "status", code |-> 200, status |-> "running",
           ip |-> LocalIP, port |-> Port,
           clients |-> Cardinality(DOMAIN S.clients),
           rooms |-> Cardinality(DOMAIN S.rooms)]]
  ELSE [S EXCEPT !.response = [kind |-> "file", code |-> fileResult]]

\* handleFileTransfer broadcasting when the named target is not registered
handleFileTransfer_Fallback(S, clientId, data) ==
  IF clientId \notin DOMAIN S.clients \/ ~Truthy(S.clients[clientId].room) THEN S
  ELSE IF Field(data, "targetClient") \in DOMAIN S.clients
       THEN wsSend(S, data.targetClient, ObjSpread(data, [from |-> clientId]))
       ELSE broadcastToRoom(S, S.clients[clientId].room,
                            ObjSpread(data, [from |-> clientId]), clientId)

\* handleFileTransfer sending a targeted message to the sender's room as well
handleFileTransfer_AlsoRoom(S, clientId, data) ==
  IF clientId \notin DOMAIN S.clients \/ ~Truthy(S.clients[clientId].room) THEN S
  ELSE LET S1 == IF Field(data, "targetClient") \in DOMAIN S.clients
                 THEN wsSend(S, data.targetClient, ObjSpread(data, [from |-> clientId]))
                 ELSE S
       IN broadcastToRoom(S1, S.clients[clientId].room,
                          ObjSpread(data, [from |-> clientId]), clientId)

handleFileTransfer(S, clientId, data) ==
  IF clientId \notin DOMAIN S.clients \/ ~Truthy(S.clients[clientId].room) THEN S
  ELSE IF Truthy(Field(data, "targetClient"))
       THEN IF /\ data.targetClient \in DOMAIN S.clients
               /\ S.readyState[data.targetClient] = "OPEN"
            THEN wsSend(S, data.targetClient, ObjSpread(data, [from |-> clientId]))
            ELSE S
       ELSE broadcastToRoom(S, S.clients[clientId].room,
                            ObjSpread(data, [from |-> clientId]), clientId)

\* handleDeviceDiscovery listing the requester among the devices
handleDeviceDiscovery_IncludeSelf(S, clientId) ==
  IF clientId \notin DOMAIN S.clients THEN S
  ELSE wsSend(S, clientId,
              [type |-> "device-list",
               devices |-> {[id |-> id, room |-> S.clients[id].room] :
                              id \in DOMAIN S.clients},
               serverInfo |-> [ip |-> LocalIP, port |-> Port,
                               clientCount |-> Cardinality(DOMAIN S.clients)]])

\* the entries of the registry other than the requester's, each with its id and
\* its room reference, and the size of the registry
handleDeviceDiscovery(S, clientId) ==
  IF clientId \notin DOMAIN S.clients THEN S
  ELSE wsSend(S, clientId,
              [type |-> "device-list",
               devices |-> {[id |-> id, room |-> S.clients[id].room] :
                              id \in DOMAIN S.clients \ {clientId}},
               serverInfo |-> [ip |-> LocalIP, port |-> Port,
                               clientCount |-> Cardinality(DOMAIN S.clients)]])

SignalKinds == {"webrtc-offer", "webrtc-answer", "webrtc-ice-candidate"}
FileKinds == {"file-transfer-start", "file-chunk", "file-complete"}

\* handleMessage answering a message of unknown type with an error
handleMessage_ErrorReply(S, clientId, data) ==
  IF clientId \notin DOMAIN S.clients THEN S
  ELSE IF IsNull(data) THEN [S EXCEPT !.threw = TRUE]
  ELSE CASE HasType(data, "join-room") ->
              handleJoinRoom(S, clientId, Field(data, "roomId"))
         [] HasType(data, "create-room") -> handleCreateRoom(S, clientId, data.roomName)
         [] \E k \in SignalKinds : HasType(data, k) ->
              handleWebRTCSignaling(S, clientId, data)
         [] \E k \in FileKinds : HasType(data, k) ->
              handleFileTransfer(S, clientId, data)
         [] HasType(data, "device-discovery") -> handleDeviceDiscovery(S, clientId)
         [] OTHER -> wsSend(S, clientId, [type |-> "error", message |-> "Unknown type"])

\* handleMessage dispatching without looking the client up
handleMessage_NoLookup(S, clientId, data) ==
  IF IsNull(data) THEN [S EXCEPT !.threw = TRUE]
  ELSE CASE HasType(data, "join-room") ->
              handleJoinRoom(S, clientId, Field(data, "roomId"))
         [] HasType(data, "create-room") -> handleCreateRoom(S, clientId, data.roomName)
         [] \E k \in SignalKinds : HasType(data, k) ->
              handleWebRTCSignaling(S, clientId, data)
         [] \E k \in FileKinds : HasType(data, k) ->
              handleFileTransfer(S, clientId, data)
         [] HasType(data, "device-discovery") -> handleDeviceDiscovery(S, clientId)
         [] OTHER -> S

\* data.type on null throws TypeError; an unknown type is logged
handleMessage(S, clientId, data) ==
  IF clientId \notin DOMAIN S.clients THEN S
  ELSE IF IsNull(data) THEN [S EXCEPT !.threw = TRUE]
  ELSE CASE HasType(data, "join-room") ->
              handleJoinRoom(S, clientId, Field(data, "roomId"))
         [] HasType(data, "create-room") -> handleCreateRoom(S, clientId, data.roomName)
         [] \E k \in SignalKinds : HasType(data, k) ->
              handleWebRTCSignaling(S, clientId, data)
         [] \E k \in FileKinds : HasType(data, k) ->
              handleFileTransfer(S, clientId, data)
         [] HasType(data, "device-discovery") -> handleDeviceDiscovery(S, clientId)
         [] OTHER -> S

\* the 'message' listener without its try/catch
onMessage_NoCatch(S, clientId, message) ==
  LET parsed == JSONparse(message)
  IN IF parsed.threw THEN [S EXCEPT !.threw = TRUE]
     ELSE handleMessage(S, clientId, parsed.value)

\* the 'message' listener answering a failure on every connection of the registry
onMessage_ErrorToAll(S, clientId, message) ==
  LET parsed == JSONparse(message)
      T == IF parsed.threw THEN [S EXCEPT !.threw = TRUE]
           ELSE handleMessage(S, clientId, parsed.value)
  IN IF T.threw
     THEN [T EXCEPT !.threw = FALSE,
                    !.sent = [c \in DOMAIN @ |->
                                IF c \in DOMAIN T.clients /\ T.readyState[c] = "OPEN"
                                THEN Append(@[c], [type |-> "error",
                                                   message |-> "Invalid JSON message"])
                                ELSE @[c]]]
     ELSE T

\* the socket's 'message' listener: parse, dispatch, and on any exception
\* reply with an error on the same socket
onMessage(S, clientId, message) ==
  LET parsed == JSONparse(message)
      T == IF parsed.threw THEN [S EXCEPT !.threw = TRUE]
           ELSE handleMessage(S, clientId, parsed.value)
  IN IF T.threw
     THEN wsSend([T EXCEPT !.threw = FALSE], clientId,
                 [type |-> "error", message |-> "Invalid JSON message"])
     ELSE T

\* onWsConnection registering the client without greeting it
onWsConnection_NoWelcome(S, clientId) ==
  [S EXCEPT !.clients = MapSet(@, clientId, [room |-> NULL])]

\* the 'connection' handler up to the registration of the socket's listeners
onWsConnection(S, clientId) ==
  wsSend([S EXCEPT !.clients = MapSet(@, clientId, [room |-> NULL])], clientId,
         [type |-> "welcome", clientId |-> clientId,
          serverInfo |-> [ip |-> LocalIP, port |-> Port]])

(* ------------------------- the receiving page -------------------------- *)
\* src/app.js: the page keeps the transfers it is receiving in
\* this.activeTransfers, filled by receiveFile (messages of a peer connection)
\* and by handleLocalFileTransfer (messages relayed by the server).
\* Transfer ids are JSON values: a number, as sendFile and sendFileViaLocalServer
\* make them (Date.now() + Math.random()), or a string.  <<"number", n>> is the
\* number n, <<"string", n>> the string of the digits of n.
TransferIds == {<<"number", 1>>, <<"string", 2>>}
\* `${transferId}`: the string a template literal makes of a transfer id
TemplateString(transferId) == <<"string", transferId[2]>>
\* the strings progress elements are named after
ControlIds == {TemplateString(t) : t \in TransferIds}
FileNames == {"a.png"}
ChunkIndices == 0..(MaxChunks - 1)
\* fileData.slice(start, end) of chunk i of the file of transfer t: a string, as
\* the sequence of its parts; no two chunks of any files are alike
Chunk(t, i) == <<10 * t[2] + i>>
\* an array slot nothing was stored in
HOLE == <<-1>>

\* new Array(n)
NewArray(n) == [k \in 0..(n - 1) |-> HOLE]
ArrayLength(a) == Cardinality(DOMAIN a)
\* a[i] = v: the array grows when i is past its end
ArraySet(a, i, v) ==
  [k \in DOMAIN a \cup 0..i |-> IF k = i THEN v ELSE IF k \in DOMAIN a THEN a[k] ELSE HOLE]
\* a.join(''): the slots in index order, a hole giving the empty string
RECURSIVE JoinFrom(_, _)
JoinFrom(a, k) ==
  IF k >= ArrayLength(a) THEN <<>>
  ELSE (IF a[k] = HOLE THEN <<>> ELSE a[k]) \o JoinFrom(a, k + 1)
ArrayJoin(a) == JoinFrom(a, 0)

\* The page state a handler works on.
Page == [activeTransfers |-> activeTransfers, mapCreated |-> mapCreated,
         downloads |-> <<>>, threw |-> FALSE, controls |-> controls]

\* a progress element named transfer-${transferId} is added to the document; its
\* button calls app.cancelFileTransfer('${transferId}')
showFileTransferProgress(P, transferId) ==
  [P EXCEPT !.controls[TemplateString(transferId)] = @ + 1]

\* getElementById finds an element of that name, if there is one, and it is
\* taken out of the document (half a second later in the code, at once here)
hideFileTransferProgress(P, transferId) ==
  [P EXCEPT !.controls[TemplateString(transferId)] = IF @ > 0 THEN @ - 1 ELSE 0]

\* Map.delete compares keys with SameValueZero: a string is never a number
cancelFileTransfer(P, transferId) ==
  hideFileTransferProgress(
    IF P.mapCreated THEN [P EXCEPT !.activeTransfers = MapDelete(@, transferId)] ELSE P,
    transferId)

handleTransferStart(P, data) ==
  showFileTransferProgress(
    [P EXCEPT !.mapCreated = TRUE,
              !.activeTransfers = MapSet(@, data.transferId,
                 [fileName |-> data.fileName, totalChunks |-> data.totalChunks,
                  chunks |-> NewArray(data.totalChunks), receivedChunks |-> 0,
                  from |-> UNDEFINED])],
    data.transferId)

\* completeFileTransfer leaving the session in the map
completeFileTransfer_NoDelete(P, transferId) ==
  IF transferId \notin DOMAIN P.activeTransfers THEN P
  ELSE LET transfer == P.activeTransfers[transferId]
       IN hideFileTransferProgress(
            [P EXCEPT !.downloads = Append(@, [href |-> ArrayJoin(transfer.chunks),
                                               download |-> transfer.fileName,
                                               transferId |-> transferId])],
            transferId)

completeFileTransfer(P, transferId) ==
  IF transferId \notin DOMAIN P.activeTransfers THEN P
  ELSE LET transfer == P.activeTransfers[transferId]
       IN hideFileTransferProgress(
            [P EXCEPT !.downloads = Append(@, [href |-> ArrayJoin(transfer.chunks),
                                               download |-> transfer.fileName,
                                               transferId |-> transferId]),
                      !.activeTransfers = MapDelete(@, transferId)],
            transferId)

\* this.activeTransfers.get throws TypeError while no Map has been assigned
handleFileChunk(P, data) ==
  IF ~P.mapCreated THEN [P EXCEPT !.threw = TRUE]
  ELSE IF data.transferId \notin DOMAIN P.activeTransfers THEN P
  ELSE LET P1 == [P EXCEPT
                    !.activeTransfers[data.transferId].chunks =
                        ArraySet(@, data.chunkIndex, data.chunk),
                    !.activeTransfers[data.transferId].receivedChunks = @ + 1]
           transfer == P1.activeTransfers[data.transferId]
       IN IF data.isLast \/ transfer.receivedChunks = transfer.totalChunks
          THEN completeFileTransfer(P1, data.transferId)
          ELSE P1

\* a message that is one whole file: it is downloaded as it is
handleLegacyFileReceive(P, data) ==
  [P EXCEPT !.downloads = Append(@, [href |-> data.data, download |-> data.name,
                                     transferId |-> UNDEFINED])]

\* this.handleTransferComplete is not defined anywhere: calling it throws
receiveFile(P, data) ==
  CASE data.type = "transfer_start" -> handleTransferStart(P, data)
    [] data.type = "file_chunk" -> handleFileChunk(P, data)
    [] data.type = "transfer_complete" -> [P EXCEPT !.threw = TRUE]
    [] OTHER -> handleLegacyFileReceive(P, data)

handleLocalTransferStart(P, data) ==
  showFileTransferProgress(
    [P EXCEPT !.mapCreated = TRUE,
              !.activeTransfers = MapSet(@, data.transferId,
                 [fileName |-> data.fileName, totalChunks |-> data.totalChunks,
                  chunks |-> NewArray(data.totalChunks), receivedChunks |-> 0,
                  from |-> data.from])],
    data.transferId)

\* completeLocalFileTransfer emptying the whole table
completeLocalFileTransfer_ClearAll(P, transferId) ==
  IF transferId \notin DOMAIN P.activeTransfers THEN P
  ELSE LET transfer == P.activeTransfers[transferId]
       IN hideFileTransferProgress(
            [P EXCEPT !.downloads = Append(@, [href |-> ArrayJoin(transfer.chunks),
                                               download |-> transfer.fileName,
                                               transferId |-> transferId]),
                      !.activeTransfers = [x \in {} |-> 0]],
            transferId)

completeLocalFileTransfer(P, transferId) ==
  IF transferId \notin DOMAIN P.activeTransfers THEN P
  ELSE LET transfer == P.activeTransfers[transferId]
       IN hideFileTransferProgress(
            [P EXCEPT !.downloads = Append(@, [href |-> ArrayJoin(transfer.chunks),
                                               download |-> transfer.fileName,
                                               transferId |-> transferId]),
                      !.activeTransfers = MapDelete(@, transferId)],
            transferId)

handleLocalFileChunk(P, data) ==
  IF ~P.mapCreated THEN [P EXCEPT !.threw = TRUE]
  ELSE IF data.transferId \notin DOMAIN P.activeTransfers THEN P
  ELSE LET P1 == [P EXCEPT
                    !.activeTransfers[data.transferId].chunks =
                        ArraySet(@, data.chunkIndex, data.chunk),
                    !.activeTransfers[data.transferId].receivedChunks = @ + 1]
           transfer == P1.activeTransfers[data.transferId]
       IN IF transfer.receivedChunks = transfer.totalChunks
          THEN completeLocalFileTransfer(P1, data.transferId)
          ELSE P1

\* this.handleLocalTransferComplete is not defined anywhere: calling it throws
handleLocalFileTransfer(P, data) ==
  CASE data.type = "file-transfer-start" -> handleLocalTransferStart(P, data)
    [] data.type = "file-chunk" -> handleLocalFileChunk(P, data)
    [] data.type = "file-complete" -> [P EXCEPT !.threw = TRUE]
    [] OTHER -> P

\* the page's dispatch of a message of the local server: membership notices
\* refresh the device list and touch no transfer
handleLocalServerMessage(P, data) ==
  CASE data.type \in {"client-joined", "client-left"} -> P
    [] data.type \in FileKinds -> handleLocalFileTransfer(P, data)
    [] OTHER -> P

(* --------------------------- the sending page -------------------------- *)
\* sendFile (over a peer connection) and sendFileViaLocalServer (through the
\* server) are async functions; between two awaits their code runs without
\* interruption, and a timer's callback runs only while they wait.
\* timers: the 5-second timers set and neither cleared nor fired
\* late: the chunks whose send had not finished when 5 seconds had passed
Idle == [pc |-> "idle", path |-> "none", totalChunks |-> 0, i |-> 0, timers |-> 0,
         late |-> {}, out |-> <<>>, outcome |-> "none"]

\* the catch block: the failure notification
TransferFailed(T) == [T EXCEPT !.pc = "done", !.outcome = "failure"]

\* sendFile up to its loop: found is whether the image and the connection
\* exist, threw whether connection.send threw
sendFileBegin(T, totalChunks, found, threw) ==
  IF ~found THEN [T EXCEPT !.pc = "done", !.path = "peer", !.outcome = "failure"]
  ELSE IF threw THEN TransferFailed([T EXCEPT !.path = "peer"])
  ELSE [T EXCEPT !.pc = "sending", !.path = "peer", !.totalChunks = totalChunks]

\* one turn of sendFile's loop: the promise's executor sets the timer, calls
\* connection.send, clears the timer and resolves, all before it returns; when
\* send throws the executor stops there, the timer stays set and the await
\* throws into the catch block
sendFileChunk(T, slow, threw) ==
  IF threw THEN TransferFailed([T EXCEPT !.timers = @ + 1])
  ELSE [T EXCEPT !.i = @ + 1,
                 !.late = IF slow THEN @ \cup {T.i} ELSE @,
                 !.out = Append(@, [chunkIndex |-> T.i,
                                    isLast |-> T.i = T.totalChunks - 1])]

\* after the loop: the success notification
sendFileEnd(T) == [T EXCEPT !.pc = "done", !.outcome = "success"]

\* a timer left set fires: reject on a promise already rejected does nothing
TimerExpired(T) == [T EXCEPT !.timers = @ - 1]

\* sendFileViaLocalServer up to its loop: open is whether this.ws is OPEN
sendFileViaLocalServerBegin(T, totalChunks, open, found, threw) ==
  IF ~open \/ ~found
  THEN [T EXCEPT !.pc = "done", !.path = "local", !.outcome = "failure"]
  ELSE IF threw THEN TransferFailed([T EXCEPT !.path = "local"])
  ELSE [T EXCEPT !.pc = "sending", !.path = "local", !.totalChunks = totalChunks]

\* one turn of sendFileViaLocalServer's loop: this.ws.send, and no timer
sendFileViaLocalServerChunk(T, slow, threw) ==
  IF threw THEN TransferFailed(T)
  ELSE [T EXCEPT !.i = @ + 1,
                 !.late = IF slow THEN @ \cup {T.i} ELSE @,
                 !.out = Append(@, [chunkIndex |-> T.i, isLast |-> FALSE])]

sendFileViaLocalServerEnd(T) == [T EXCEPT !.pc = "done", !.outcome = "success"]

(* ------------------------ the page's connections ---------------------- *)
\* src/app.js: the page first asks for the local server and connects to it with
\* a WebSocket; when there is none, or that connection is lost, it makes a Peer
\* of the external PeerJS server.  Its handlers run to completion; what they
\* wait for (timers, events of a socket or a peer) comes later.
\* the most calls of retryPeerConnection that start a new attempt
RetryLimit == 3

\* sockets: the WebSocket objects made, each by where it stands ("connecting",
\*   "open", "waiting": it has emitted close and the two-second timer of its
\*   onclose is set, "closed": that timer has fired)
\* peers: the Peer objects made, see NewPeer
\* ws, peer: this.ws and this.peer, as indices, 0 before the first
\* retrying: calls of retryPeerConnection in their one-second wait
\* started: init has called setupPeerConnection
\* attempts: the calls of retryPeerConnection that went on to
\* setupPeerConnection; gaveUp: the handler that ran last was a call of
\* retryPeerConnection that found the counter past its limit; exhausted: there
\* has been such a call; lateAttempt: a WebSocket or a Peer was made after it
Constructed ==
  [sockets |-> <<>>, ws |-> 0, peers |-> <<>>, peer |-> 0, retrying |-> 0,
   retryCount |-> 0, status |-> "none", started |-> FALSE, attempts |-> 0,
   gaveUp |-> FALSE, exhausted |-> FALSE, lateAttempt |-> FALSE]

\* new Peer(peerConfig) and its connectionTimeout.  state: "connecting",
\* "open", "failed" (it has emitted 'error', after which it emits nothing) or
\* "destroyed"; timer: the ten-second connectionTimeout is set; id: peer.id is
\* set; retryTimer: the three-second timer of its error handler is set;
\* madeBy: the socket whose onerror made it, 0 when it was not made by one
NewPeer == [state |-> "connecting", timer |-> TRUE, id |-> FALSE,
            retryTimer |-> FALSE, madeBy |-> 0]

setupExternalPeerConnection(C) ==
  [C EXCEPT !.status = "connecting",
            !.peers = Append(@, NewPeer),
            !.peer = Len(C.peers) + 1]

setupLocalNetworkConnection(C) ==
  [C EXCEPT !.status = "connecting",
            !.sockets = Append(@, "connecting"),
            !.ws = Len(C.sockets) + 1]

\* localServerConfig: whether tryLocalServer found the local server
setupPeerConnection(C, localServerConfig) ==
  IF localServerConfig THEN setupLocalNetworkConnection(C)
  ELSE setupExternalPeerConnection(C)

\* this.ws.onopen
wsOnopen(C, s) == [C EXCEPT !.sockets[s] = "open", !.status = "connected"]

\* this.ws.onerror: the fallback is started at once
wsOnerror(C, s) ==
  LET C1 == setupExternalPeerConnection(C)
  IN [C1 EXCEPT !.peers[C1.peer].madeBy = s]

\* this.ws.onclose: the fallback is started two seconds later
wsOnclose(C, s) == [C EXCEPT !.sockets[s] = "waiting", !.status = "connecting"]

\* the two-second timer of onclose
fallbackTimeout(C, s) == setupExternalPeerConnection([C EXCEPT !.sockets[s] = "closed"])

\* retryPeerConnection up to its one-second wait: this.peer is destroyed; idKept
\* is whether a destroyed Peer still has the id it was given
retryPeerConnectionBegin(C, idKept) ==
  LET C1 == IF C.peer # 0
            THEN [C EXCEPT !.peers[C.peer].state = "destroyed",
                           !.peers[C.peer].id = @ /\ idKept]
            ELSE C
  IN [C1 EXCEPT !.retrying = @ + 1]

\* retryPeerConnection after its wait
retryPeerConnectionResume(C, localServerConfig) ==
  LET C1 == [C EXCEPT !.retrying = @ - 1, !.retryCount = @ + 1]
  IN IF C1.retryCount <= RetryLimit
     THEN setupPeerConnection([C1 EXCEPT !.status = "connecting"], localServerConfig)
     ELSE [C1 EXCEPT !.status = "disconnected"]

\* the ten-second connectionTimeout of peer p: it looks at this.peer, which
\* need not be p
connectionTimeout(C, p, idKept) ==
  LET C1 == [C EXCEPT !.peers[p].timer = FALSE]
  IN IF C1.peer = 0 \/ ~C1.peers[C1.peer].id
     THEN retryPeerConnectionBegin(C1, idKept)
     ELSE C1

\* peer.on('open')
peerOnOpen(C, p) ==
  [C EXCEPT !.peers[p].timer = FALSE, !.peers[p].id = TRUE, !.peers[p].state = "open",
            !.status = "connected"]

\* err.type: the kind the handler retries on, and two of those it does not
ErrorTypes == {"network", "server-error", "unavailable-id"}

\* peer.on('error')
peerOnError(C, p, type) ==
  LET C1 == [C EXCEPT !.peers[p].timer = FALSE, !.peers[p].state = "failed",
                      !.status = "disconnected"]
  IN IF type = "network" THEN [C1 EXCEPT !.peers[p].retryTimer = TRUE] ELSE C1

\* the three-second timer of the error handler of peer p
retryTimeout(C, p, idKept) ==
  retryPeerConnectionBegin([C EXCEPT !.peers[p].retryTimer = FALSE], idKept)

(* ------------------------------ actions ------------------------------- *)
Init ==
  /\ clients = [x \in {} |-> [room |-> NULL]]
  /\ rooms = [x \in {} |-> [clients |-> {}, name |-> "", creator |-> NULL]]
  /\ readyState = [c \in ClientIds |-> "NONE"]
  /\ pending = [c \in ClientIds |-> {}]
  /\ firstSent = [c \in ClientIds |-> NoMsg]
  /\ welcomes = [c \in ClientIds |-> 0]
  /\ nextClient = 0
  /\ nextRoom = 0
  /\ handled = 0
  /\ sent = NoSent
  /\ last = [op |-> "init", client |-> NULL, roomId |-> NULL]
  /\ pre = [clients |-> clients, rooms |-> rooms, readyState |-> readyState]
  /\ cleaned = {}
  /\ deleted = {}
  /\ lastJoin = [c \in ClientIds |-> NULL]
  /\ inbound = NoFrame
  /\ uncaught = FALSE
  /\ relays = 0
  /\ outbox = [c \in ClientIds |-> <<>>]
  /\ dropped = [c \in ClientIds |-> {}]
  /\ httpResponse = NoResponse
  /\ activeTransfers = [x \in {} |-> 0]
  /\ mapCreated = FALSE
  /\ downloads = <<>>
  /\ rx = [op |-> "init"]
  /\ rxHandled = 0
  /\ intact = [t \in TransferIds |-> TRUE]
  /\ completions = [t \in TransferIds |-> 0]
  /\ controls = [s \in ControlIds |-> 0]
  /\ cancelled = [t \in TransferIds |-> FALSE]
  /\ left = {}
  /\ tx = Idle
  /\ conn = Constructed

\* a socket transmits what ws.send was given in the order of the calls
Transmit_Lifo(queue, n) == <<n>> \o queue

Transmit(queue, n) == Append(queue, n)

\* The connections a file-transfer object from clientId is addressed to: the
\* named target, or else the other members of the sender's room
Recipients(S, clientId, data) ==
  IF clientId \notin DOMAIN S.clients \/ ~Truthy(S.clients[clientId].room) THEN {}
  ELSE IF Truthy(Field(data, "targetClient")) THEN {data.targetClient} \cap ClientIds
  ELSE IF S.clients[clientId].room \in DOMAIN S.rooms
       THEN S.rooms[S.clients[clientId].room].clients \ {clientId}
       ELSE {}

\* What every handler leaves behind: the new server state and the record of the step.
CommitMsg(S, T, op, c, r, frame) ==
  /\ clients' = T.clients
  /\ rooms' = T.rooms
  /\ firstSent' = [x \in ClientIds |->
                      IF firstSent[x] = NoMsg /\ T.sent[x] # <<>>
                      THEN T.sent[x][1] ELSE firstSent[x]]
  /\ welcomes' = [x \in ClientIds |-> welcomes[x] + Count(T.sent[x], "welcome")]
  /\ sent' = T.sent
  /\ nextRoom' = T.nextRoom
  /\ last' = [op |-> op, client |-> c, roomId |-> r]
  /\ pre' = [clients |-> S.clients, rooms |-> S.rooms, readyState |-> S.readyState]
  /\ deleted' = deleted \cup (DOMAIN rooms \ DOMAIN T.rooms)
  /\ inbound' = frame
  /\ uncaught' = (uncaught \/ T.threw)
  /\ httpResponse' = IF T.response # NoResponse THEN T.response ELSE httpResponse
  /\ IF op = "file-transfer" /\ relays < MaxRelayed
     THEN /\ relays' = relays + 1
          /\ outbox' = [x \in ClientIds |->
                          IF T.sent[x] # <<>> THEN Transmit(outbox[x], relays + 1)
                          ELSE outbox[x]]
          /\ dropped' = [x \in ClientIds |->
                           IF x \in Recipients(S, c, frame.value)
                                /\ S.readyState[x] # "OPEN"
                           THEN dropped[x] \cup {relays + 1}
                           ELSE dropped[x]]
     ELSE UNCHANGED <<relays, outbox, dropped>>
  /\ UNCHANGED <<pageVars, senderVars>>

\* a handler that was given no frame, or one whose content last records
Commit(S, T, op, c, r) == CommitMsg(S, T, op, c, r, NoFrame)

\* wss 'connection': a socket in state OPEN is handed to onWsConnection
Connect ==
  /\ nextClient < MaxClients
  /\ LET c == <<"client", nextClient + 1>>
         S == [Server EXCEPT !.readyState[c] = "OPEN"]
     IN /\ Commit(S, onWsConnection(S, c), "connect", c, NULL)
        /\ readyState' = [readyState EXCEPT ![c] = "OPEN"]
  /\ nextClient' = nextClient + 1
  /\ UNCHANGED <<pending, handled, cleaned, lastJoin>>

\* Room ids a client can name in join-room: any string, or an id it was told
JoinIds == {EMPTY} \cup NamedRooms \cup {<<"gen", i>> : i \in 1..nextRoom}

\* the socket's 'message' listener is registered and 'close' was not emitted
CanReceive(c) == readyState[c] \in {"OPEN", "CLOSING"}

\* ws 'message' carrying {type: 'join-room', roomId: r}
JoinRoomMsg ==
  \E c \in ClientIds, r \in JoinIds :
    /\ CanReceive(c)
    /\ handled < MaxMsgs
    /\ handled' = handled + 1
    /\ Commit(Server, handleMessage(Server, c, [type |-> "join-room", roomId |-> r]),
              "join-room", c, r)
    /\ lastJoin' = IF c \in DOMAIN clients THEN [lastJoin EXCEPT ![c] = r]
                   ELSE lastJoin
    /\ UNCHANGED <<readyState, pending, nextClient, cleaned>>

\* ws 'message' carrying {type: 'create-room', roomName: n}
CreateRoomMsg ==
  \E c \in ClientIds, n \in RoomNames :
    /\ CanReceive(c)
    /\ handled < MaxMsgs
    /\ handled' = handled + 1
    /\ nextRoom < MaxCreated
    /\ Commit(Server, handleMessage(Server, c, [type |-> "create-room", roomName |-> n]),
              "create-room", c, NULL)
    /\ UNCHANGED <<readyState, pending, nextClient, cleaned, lastJoin>>

\* The socket leaves OPEN (peer closed, or the transport failed); ws will emit
\* 'close', preceded by 'error' when the transport failed.
SocketDown ==
  \E c \in ClientIds, evts \in {{"close"}, {"error", "close"}} :
    /\ readyState[c] = "OPEN"
    /\ readyState' = [readyState EXCEPT ![c] = "CLOSING"]
    /\ pending' = [pending EXCEPT ![c] = evts]
    /\ UNCHANGED <<clients, rooms, firstSent, welcomes, nextClient, nextRoom,
                   handled, sent, last, pre, cleaned, deleted, lastJoin,
                   inbound, uncaught, relays, outbox, dropped, httpResponse>>
    /\ UNCHANGED <<pageVars, senderVars>>

\* ws 'close' listener
Close ==
  \E c \in ClientIds :
    /\ "close" \in pending[c]
    /\ Commit(Server, handleClientDisconnect(Server, c), "close", c, NULL)
    /\ pending' = [pending EXCEPT ![c] = @ \ {"close"}]
    /\ readyState' = [readyState EXCEPT ![c] = "CLOSED"]
    /\ cleaned' = cleaned \cup {c}
    /\ lastJoin' = [lastJoin EXCEPT ![c] = NULL]
    /\ UNCHANGED <<nextClient, handled>>

\* ws 'error' listener
Error ==
  \E c \in ClientIds :
    /\ "error" \in pending[c]
    /\ Commit(Server, handleClientDisconnect(Server, c), "error", c, NULL)
    /\ pending' = [pending EXCEPT ![c] = @ \ {"error"}]
    /\ cleaned' = cleaned \cup {c}
    /\ lastJoin' = [lastJoin EXCEPT ![c] = NULL]
    /\ UNCHANGED <<readyState, nextClient, handled>>

Next == Connect \/ JoinRoomMsg \/ CreateRoomMsg \/ SocketDown \/ Close \/ Error

Spec == Init /\ [][Next]_vars

\* The server driven by connect, join-room and disconnect events only.
NextJoin == Connect \/ JoinRoomMsg \/ SocketDown \/ Close \/ Error

SpecJoin == Init /\ [][NextJoin]_vars

(* ----------------------- the page's transfer actions ------------------- *)
\* What a receiving handler leaves behind, and the record of the step.
CommitPage(P, Q, op, data) ==
  /\ rxHandled < MaxRx
  /\ rxHandled' = rxHandled + 1
  /\ activeTransfers' = Q.activeTransfers
  /\ mapCreated' = Q.mapCreated
  /\ downloads' = Q.downloads
  /\ controls' = Q.controls
  /\ cancelled' = [t \in TransferIds |->
                     CASE op = "start" /\ t = data.transferId -> FALSE
                       [] op = "cancel" /\ TemplateString(t) = data.transferId -> TRUE
                       [] OTHER -> cancelled[t]]
  /\ rx' = [op |-> op, data |-> data, threw |-> Q.threw,
             changed |-> Q.activeTransfers # P.activeTransfers,
             hadMap |-> P.mapCreated,
             concurrent |-> DOMAIN P.activeTransfers \ {data.transferId} # {},
             othersSame |-> \A u \in DOMAIN P.activeTransfers \ {data.transferId} :
                               /\ u \in DOMAIN Q.activeTransfers
                               /\ Q.activeTransfers[u] = P.activeTransfers[u],
             had |-> data.transferId \in DOMAIN P.activeTransfers,
             before |-> IF data.transferId \in DOMAIN P.activeTransfers
                        THEN P.activeTransfers[data.transferId].receivedChunks
                        ELSE 0,
             total |-> IF data.transferId \in DOMAIN P.activeTransfers
                       THEN P.activeTransfers[data.transferId].totalChunks
                       ELSE 0]
  /\ completions' = [t \in TransferIds |->
                       (IF op = "start" /\ t = data.transferId THEN 0 ELSE completions[t])
                         + Cardinality({i \in 1..Len(Q.downloads) :
                                          Q.downloads[i].transferId = t})]
  /\ UNCHANGED <<serverVars, left, senderVars>>

\* a start message: the transfer's chunk messages are counted from here
Started(t) == intact' = [intact EXCEPT ![t] = TRUE]
\* a chunk message: is its index in range, its slot still empty, and its flag
\* the one sendFile gives the chunk of that index
Chunked(P, data) ==
  intact' = [intact EXCEPT ![data.transferId] =
     /\ @
     /\ data.transferId \in DOMAIN P.activeTransfers =>
          LET transfer == P.activeTransfers[data.transferId]
          IN /\ data.chunkIndex < transfer.totalChunks
             /\ transfer.chunks[data.chunkIndex] = HOLE
             /\ data.isLast = (data.chunkIndex = transfer.totalChunks - 1)]

\* receiveFile given a transfer_start message
PeerStart ==
  \E t \in TransferIds, n \in 0..MaxChunks, f \in FileNames :
    LET data == [type |-> "transfer_start", transferId |-> t, fileName |-> f,
                 totalChunks |-> n]
    IN CommitPage(Page, receiveFile(Page, data), "start", data) /\ Started(t)

\* receiveFile given a file_chunk message
PeerChunk ==
  \E t \in TransferIds, i \in ChunkIndices, isLast \in BOOLEAN :
    LET data == [type |-> "file_chunk", transferId |-> t, chunkIndex |-> i,
                 chunk |-> Chunk(t, i), isLast |-> isLast]
    IN CommitPage(Page, receiveFile(Page, data), "chunk", data) /\ Chunked(Page, data)

\* the room-mate whose transfers the server relays to the page; the server
\* relays nothing from a client after it has announced that the client left
Sender == <<"client", 1>>

\* handleLocalFileTransfer given a relayed file-transfer-start message
LocalStart ==
  \E t \in TransferIds, n \in 0..MaxChunks, f \in FileNames :
    LET data == [type |-> "file-transfer-start", transferId |-> t, fileName |-> f,
                 totalChunks |-> n, from |-> Sender]
    IN /\ Sender \notin left
       /\ CommitPage(Page, handleLocalFileTransfer(Page, data), "start", data)
       /\ Started(t)

\* handleLocalFileTransfer given a relayed file-chunk message
LocalChunk ==
  \E t \in TransferIds, i \in ChunkIndices, isLast \in BOOLEAN :
    LET data == [type |-> "file-chunk", transferId |-> t, chunkIndex |-> i,
                 chunk |-> Chunk(t, i), isLast |-> isLast, from |-> Sender]
    IN /\ Sender \notin left
       /\ CommitPage(Page, handleLocalFileTransfer(Page, data), "chunk", data)
       /\ Chunked(Page, data)

\* receiveFile given a transfer_complete message
PeerComplete ==
  \E t \in TransferIds :
    LET data == [type |-> "transfer_complete", transferId |-> t]
    IN CommitPage(Page, receiveFile(Page, data), "complete", data) /\ UNCHANGED intact

\* handleLocalFileTransfer given a relayed file-complete message
LocalComplete ==
  \E t \in TransferIds :
    LET data == [type |-> "file-complete", transferId |-> t, from |-> Sender]
    IN /\ Sender \notin left
       /\ CommitPage(Page, handleLocalFileTransfer(Page, data), "complete", data)
       /\ UNCHANGED intact

\* the cancel button of a progress element in the document is clicked
CancelClick ==
  \E s \in ControlIds :
    /\ controls[s] > 0
    /\ CommitPage(Page, cancelFileTransfer(Page, s), "cancel", [transferId |-> s])
    /\ UNCHANGED intact

\* ws.onmessage given the server's client-left notice for the sender
ClientLeft ==
  LET data == [type |-> "client-left", clientId |-> Sender, roomClients |-> {}]
      Q == handleLocalServerMessage(Page, data)
  IN /\ Sender \notin left
     /\ left' = left \cup {Sender}
     /\ activeTransfers' = Q.activeTransfers
     /\ mapCreated' = Q.mapCreated
     /\ downloads' = Q.downloads
     /\ controls' = Q.controls
     /\ rx' = [op |-> "client-left", data |-> data, threw |-> Q.threw,
                changed |-> Q.activeTransfers # activeTransfers,
                hadMap |-> mapCreated, had |-> FALSE, before |-> 0, total |-> 0]
     /\ UNCHANGED <<serverVars, rxHandled, intact, completions, cancelled,
                    senderVars>>

\* A page receiving transfers through the server from a room-mate that leaves.
NextLeave == LocalStart \/ LocalChunk \/ ClientLeft

\* Every message that reaches the page is handled.
SpecLeave == Init /\ [][NextLeave]_vars /\ WF_vars(NextLeave)

\* the start message is of a transfer the page has not been told of before:
\* sendFileViaLocalServer makes a new id for every file it sends
FreshTransfer == ~rx'.had /\ completions[rx'.data.transferId] = 0
\* the chunk message is the next of its transfer: the sender's loop sends the
\* indices from 0 up, each once, and the server relays them in that order
NextInOrder == rx'.had /\ rx'.data.chunkIndex = rx'.before /\ rx'.before < rx'.total

\* the chunks the sessions of a table still wait for
RECURSIVE Outstanding(_, _)
Outstanding(table, ids) ==
  IF ids = {} THEN 0
  ELSE LET t == CHOOSE u \in ids : TRUE
       IN (table[t].totalChunks - table[t].receivedChunks)
            + Outstanding(table, ids \ {t})
\* the transfers are no longer than the messages the page is given: a transfer
\* that starts is one whose chunks will all be delivered
WithinRun ==
  rxHandled' + Outstanding(activeTransfers', DOMAIN activeTransfers') <= MaxRx

\* A page receiving, through the server, transfers that sendFileViaLocalServer
\* sends: a start message, then the declared chunks in index order, until the
\* sender leaves.
NextDeliver == \/ LocalStart /\ FreshTransfer /\ WithinRun
               \/ LocalChunk /\ NextInOrder
               \/ ClientLeft

\* Every message that reaches the page is handled.
SpecDeliver == Init /\ [][NextDeliver]_vars /\ WF_vars(NextDeliver)

(* --------------------- the page's connection actions ------------------ *)
\* What a connection handler leaves behind, and the record of the step.
CommitConn(C, op) ==
  LET made == Len(C.peers) + Len(C.sockets) > Len(conn.peers) + Len(conn.sockets)
  IN /\ Len(C.peers) <= MaxPeers
     /\ Len(C.sockets) <= MaxSockets
     /\ conn' = [C EXCEPT !.attempts = IF op = "retry" /\ made THEN @ + 1 ELSE @,
                           !.gaveUp = (op = "retry" /\ ~made),
                           !.exhausted = @ \/ (op = "retry" /\ ~made),
                           !.lateAttempt = @ \/ (made /\ conn.exhausted)]
     /\ UNCHANGED <<serverVars, pageVars, tx>>

\* init's call of setupPeerConnection
Launch ==
  \E localServerConfig \in BOOLEAN :
    /\ ~conn.started
    /\ CommitConn(setupPeerConnection([conn EXCEPT !.started = TRUE],
                                       localServerConfig), "launch")

\* a WebSocket emits open
WsOpen ==
  \E s \in DOMAIN conn.sockets :
    /\ conn.sockets[s] = "connecting"
    /\ CommitConn(wsOnopen(conn, s), "ws-open")

\* a WebSocket whose connection fails emits error and then close, in one task
WsFail ==
  \E s \in DOMAIN conn.sockets :
    /\ conn.sockets[s] \in {"connecting", "open"}
    /\ CommitConn(wsOnclose(wsOnerror(conn, s), s), "ws-error")

\* a WebSocket that is closed emits close
WsClose ==
  \E s \in DOMAIN conn.sockets :
    /\ conn.sockets[s] \in {"connecting", "open"}
    /\ CommitConn(wsOnclose(conn, s), "ws-close")

\* the two-second timer of a socket's onclose fires
FallbackTimer ==
  \E s \in DOMAIN conn.sockets :
    /\ conn.sockets[s] = "waiting"
    /\ CommitConn(fallbackTimeout(conn, s), "fallback")

\* Timers set in one task fire by their delays: the timers of a peer made by
\* an onerror, ten and three seconds, after the two seconds of the onclose
\* that ran in the same task.
TimerOrder(p) ==
  IF conn.peers[p].madeBy = 0 THEN TRUE
  ELSE conn.sockets[conn.peers[p].madeBy] # "waiting"

\* the connectionTimeout of a peer fires
PeerTimeout ==
  \E p \in DOMAIN conn.peers, idKept \in BOOLEAN :
    /\ conn.peers[p].timer
    /\ TimerOrder(p)
    /\ CommitConn(connectionTimeout(conn, p, idKept), "timeout")

\* a peer emits open
PeerOpen ==
  \E p \in DOMAIN conn.peers :
    /\ conn.peers[p].state = "connecting"
    /\ CommitConn(peerOnOpen(conn, p), "peer-open")

\* a peer that is connecting or open emits error
PeerError ==
  \E p \in DOMAIN conn.peers, type \in ErrorTypes :
    /\ conn.peers[p].state \in {"connecting", "open"}
    /\ CommitConn(peerOnError(conn, p, type), "peer-error")

\* the three-second timer of a peer's error handler fires
RetryTimer ==
  \E p \in DOMAIN conn.peers, idKept \in BOOLEAN :
    /\ conn.peers[p].retryTimer
    /\ TimerOrder(p)
    /\ CommitConn(retryTimeout(conn, p, idKept), "retry-timer")

\* a call of retryPeerConnection goes on after its wait
RetryResume ==
  \E localServerConfig \in BOOLEAN :
    /\ conn.retrying > 0
    /\ CommitConn(retryPeerConnectionResume(conn, localServerConfig), "retry")

\* The page making and losing its connections.
NextConnect == Launch \/ WsOpen \/ WsFail \/ WsClose \/ FallbackTimer
                 \/ PeerTimeout \/ PeerOpen \/ PeerError \/ RetryTimer \/ RetryResume

SpecConnect == Init /\ [][NextConnect]_vars

(* ----------------------- the page's sending actions ------------------- *)
\* the user sends an image to a device over a peer connection
SendFile ==
  \E n \in 0..MaxChunks, found, threw \in BOOLEAN :
    /\ tx.pc = "idle"
    /\ tx' = sendFileBegin(tx, n, found, threw)
    /\ UNCHANGED <<serverVars, pageVars, conn>>

\* the user sends an image to a device through the local server
SendFileViaLocalServer ==
  \E n \in 0..MaxChunks, open, found, threw \in BOOLEAN :
    /\ tx.pc = "idle"
    /\ tx' = sendFileViaLocalServerBegin(tx, n, open, found, threw)
    /\ UNCHANGED <<serverVars, pageVars, conn>>

\* the loop sends its next chunk; slow: the send has not finished when five
\* seconds have passed
SendChunk ==
  \E slow, threw \in BOOLEAN :
    /\ tx.pc = "sending"
    /\ tx.i < tx.totalChunks
    /\ tx' = IF tx.path = "peer" THEN sendFileChunk(tx, slow, threw)
              ELSE sendFileViaLocalServerChunk(tx, slow, threw)
    /\ UNCHANGED <<serverVars, pageVars, conn>>

\* the loop is over
SendEnd ==
  /\ tx.pc = "sending"
  /\ tx.i = tx.totalChunks
  /\ tx' = IF tx.path = "peer" THEN sendFileEnd(tx) ELSE sendFileViaLocalServerEnd(tx)
  /\ UNCHANGED <<serverVars, pageVars, conn>>

\* a timer that was left set runs its callback once the function has returned
TimerFires ==
  /\ tx.timers > 0
  /\ tx.pc = "done"
  /\ tx' = TimerExpired(tx)
  /\ UNCHANGED <<serverVars, pageVars, conn>>

\* A page sending one file.
NextSend == SendFile \/ SendFileViaLocalServer \/ SendChunk \/ SendEnd \/ TimerFires

SpecSend == Init /\ [][NextSend]_vars

\* A page receiving transfers through the server only.
NextLocal == LocalStart \/ LocalChunk \/ LocalComplete \/ CancelClick

SpecLocal == Init /\ [][NextLocal]_vars

\* A page receiving transfers, over peer connections and through the server.
NextTransfer == PeerStart \/ PeerChunk \/ PeerComplete
                  \/ LocalStart \/ LocalChunk \/ LocalComplete \/ CancelClick

SpecTransfer == Init /\ [][NextTransfer]_vars

(* --------------------------- relayed messages -------------------------- *)
\* Relay handlers leave both maps alone, so their number needs no bound.
\* an id no connection was ever given
NoSuchClient == <<"client", 0>>
\* what a peer can put in targetClient
TargetIds == ClientIds \cup {NoSuchClient}

\* signaling objects: a kind, a payload, and possibly a from property of the
\* peer's own making
SignalingData ==
  {[type |-> k, sdp |-> "v=0"] : k \in SignalKinds}
    \cup {[type |-> k, sdp |-> "v=0", from |-> f] : k \in SignalKinds, f \in ClientIds}

\* file-transfer objects, with and without a targetClient
FileTransferData ==
  {[type |-> k, transferId |-> "t1"] : k \in FileKinds}
    \cup {[type |-> k, transferId |-> "t1", targetClient |-> t] :
             k \in FileKinds, t \in TargetIds}

\* objects whose type handleMessage has no case for, or that have no type
UnknownData == {[type |-> "ping"], [hello |-> "world"]}

\* ws 'message' carrying a webrtc-offer, webrtc-answer or webrtc-ice-candidate
SignalingMsg ==
  \E c \in ClientIds, data \in SignalingData :
    /\ CanReceive(c)
    /\ CommitMsg(Server, onMessage(Server, c, JSONstringify(data)),
                 "signaling", c, NULL, JSONstringify(data))
    /\ UNCHANGED <<readyState, pending, nextClient, handled, cleaned, lastJoin>>

\* ws 'message' carrying a file-transfer-start, file-chunk or file-complete
FileTransferMsg ==
  \E c \in ClientIds, data \in FileTransferData :
    /\ CanReceive(c)
    /\ CommitMsg(Server, onMessage(Server, c, JSONstringify(data)),
                 "file-transfer", c, NULL, JSONstringify(data))
    /\ UNCHANGED <<readyState, pending, nextClient, handled, cleaned, lastJoin>>

\* ws 'message' carrying an object of a type the switch does not list
UnknownMsg ==
  \E c \in ClientIds, data \in UnknownData :
    /\ CanReceive(c)
    /\ CommitMsg(Server, onMessage(Server, c, JSONstringify(data)),
                 "unknown", c, NULL, JSONstringify(data))
    /\ UNCHANGED <<readyState, pending, nextClient, handled, cleaned, lastJoin>>

\* ws 'message' carrying text that is not the JSON of an object
InvalidMsg ==
  \E c \in ClientIds, frame \in {GarbageFrame, NullFrame, NumberFrame} :
    /\ CanReceive(c)
    /\ CommitMsg(Server, onMessage(Server, c, frame), "invalid", c, NULL, frame)
    /\ UNCHANGED <<readyState, pending, nextClient, handled, cleaned, lastJoin>>

\* The server relaying signaling between the members of rooms.
NextSignal == Connect \/ JoinRoomMsg \/ CreateRoomMsg \/ SocketDown \/ Close \/ Error
                \/ SignalingMsg

SpecSignal == Init /\ [][NextSignal]_vars

\* kinds the switch lists, sent with the type property alone
PartialKinds == {"join-room", "webrtc-offer", "file-chunk"}

\* ws 'message' carrying an object of a listed type without its other properties
PartialMsg ==
  \E c \in ClientIds, k \in PartialKinds :
    /\ CanReceive(c)
    /\ handled < MaxMsgs
    /\ handled' = handled + 1
    /\ CommitMsg(Server, onMessage(Server, c, JSONstringify([type |-> k])),
                 "partial", c, UNDEFINED, JSONstringify([type |-> k]))
    /\ lastJoin' = IF k = "join-room" /\ c \in DOMAIN clients
                   THEN [lastJoin EXCEPT ![c] = UNDEFINED]
                   ELSE lastJoin
    /\ UNCHANGED <<readyState, pending, nextClient, cleaned>>

\* No frame has been handled yet.  The handlers of the frames below write
\* neither map, so a later frame finds a state an earlier one could have found.
FirstFrame == inbound = NoFrame

\* The server up to the first file-transfer frame it is given.
NextFile == \/ FirstFrame /\ Connect
            \/ FirstFrame /\ JoinRoomMsg
            \/ FirstFrame /\ SocketDown
            \/ FirstFrame /\ Close
            \/ FirstFrame /\ FileTransferMsg

SpecFile == Init /\ [][NextFile]_vars

\* the file-chunk objects a sender streams to its room
FileChunkData == {data \in FileTransferData :
                    data.type = "file-chunk" /\ "targetClient" \notin DOMAIN data}

\* ws 'message' carrying one of a run of file-chunk frames
FileChunkMsg ==
  \E c \in ClientIds, data \in FileChunkData :
    /\ CanReceive(c)
    /\ relays < MaxRelayed
    /\ CommitMsg(Server, onMessage(Server, c, JSONstringify(data)),
                 "file-transfer", c, NULL, JSONstringify(data))
    /\ UNCHANGED <<readyState, pending, nextClient, handled, cleaned, lastJoin>>

\* the socket that goes down was closed by its peer: no 'error' will be emitted
PeerClosed == \A c \in ClientIds : "error" \notin pending'[c]

\* The server relaying a run of file-chunk frames into the rooms it has, while
\* members' sockets are closed by their peers.
NextOrder == \/ relays = 0 /\ Connect
             \/ relays = 0 /\ JoinRoomMsg
             \/ SocketDown /\ PeerClosed
             \/ Close
             \/ FileChunkMsg

SpecOrder == Init /\ [][NextOrder]_vars

\* ws 'message' carrying {type: 'device-discovery'}
DiscoveryMsg ==
  \E c \in ClientIds :
    /\ CanReceive(c)
    /\ CommitMsg(Server,
                 onMessage(Server, c, JSONstringify([type |-> "device-discovery"])),
                 "device-discovery", c, NULL,
                 JSONstringify([type |-> "device-discovery"]))
    /\ UNCHANGED <<readyState, pending, nextClient, handled, cleaned, lastJoin>>

\* The server up to the first device-discovery frame it is given.
NextDiscovery == \/ FirstFrame /\ Connect
                 \/ FirstFrame /\ JoinRoomMsg
                 \/ FirstFrame /\ SocketDown
                 \/ FirstFrame /\ Close
                 \/ FirstFrame /\ Error
                 \/ FirstFrame /\ DiscoveryMsg

SpecDiscovery == Init /\ [][NextDiscovery]_vars

\* http 'request': a GET for one of the server's paths
HttpRequest ==
  \E url \in Urls, fileResult \in FileResults :
    /\ Commit(Server, handleHttpRequest(Server, url, fileResult), "http", NULL, NULL)
    /\ UNCHANGED <<readyState, pending, nextClient, handled, cleaned, lastJoin>>

\* No HTTP request has been answered yet.  handleHttpRequest writes neither map,
\* so what follows a request could have happened without it.
FirstRequest == httpResponse = NoResponse

\* The server up to the first HTTP request it answers.
NextProbe == \/ FirstRequest /\ Connect
             \/ FirstRequest /\ JoinRoomMsg
             \/ FirstRequest /\ SocketDown
             \/ FirstRequest /\ Close
             \/ FirstRequest /\ Error
             \/ FirstRequest /\ HttpRequest

SpecProbe == Init /\ [][NextProbe]_vars

\* The server up to the first frame that is not a well-formed message.
NextDispatch == \/ FirstFrame /\ Connect
                \/ FirstFrame /\ JoinRoomMsg
                \/ FirstFrame /\ SocketDown
                \/ FirstFrame /\ Close
                \/ FirstFrame /\ Error
                \/ FirstFrame /\ UnknownMsg
                \/ FirstFrame /\ InvalidMsg
                \/ FirstFrame /\ PartialMsg

SpecDispatch == Init /\ [][NextDispatch]_vars

\* the frame comes on a connection whose close or error listener has run
LateFrame == last'.client \in cleaned
\* the socket that goes down had its transport fail: 'error' will be emitted,
\* and 'close' after it
TransportFailed ==
  \A c \in ClientIds : pending'[c] # pending[c] => "error" \in pending'[c]

\* The server up to the first frame it is given on a connection whose client it
\* has unregistered.
NextLate == \/ FirstFrame /\ Connect
            \/ FirstFrame /\ JoinRoomMsg
            \/ FirstFrame /\ SocketDown /\ TransportFailed
            \/ FirstFrame /\ Close
            \/ FirstFrame /\ Error
            \/ FirstFrame /\ CreateRoomMsg /\ LateFrame
            \/ FirstFrame /\ SignalingMsg /\ LateFrame
            \/ FirstFrame /\ FileTransferMsg /\ LateFrame
            \/ FirstFrame /\ DiscoveryMsg /\ LateFrame
            \/ FirstFrame /\ UnknownMsg /\ LateFrame
            \/ FirstFrame /\ InvalidMsg /\ LateFrame
            \/ FirstFrame /\ PartialMsg /\ LateFrame

SpecLate == Init /\ [][NextLate]_vars

(* ------------------------------ properties ---------------------------- *)
\* member set of a room id; empty when no such room exists
Members(r) == IF r \in DOMAIN rooms THEN rooms[r].clients ELSE {}
\* the rooms whose member set holds client c
RoomsOf(c) == {r \in DOMAIN rooms : c \in rooms[r].clients}
\* the rooms whose member set held client c when the last handler started
PreRoomsOf(c) == {r \in DOMAIN pre.rooms : c \in pre.rooms[r].clients}
\* the messages of one type the last handler transmitted to connection d
Events(d, t) == {i \in 1..Len(sent[d]) : sent[d][i].type = t}
\* the last handler was a join-room from a registered client
JoinHandled == last.op = "join-room" /\ last.client \in DOMAIN pre.clients
\* the last handler was a close or error listener
DisconnectHandled == last.op \in {"close", "error"}

\* C1: in every reachable state each client id is in the member set of at most
\* one room.
C1_AtMostOneRoom == \A c \in ClientIds : Cardinality(RoomsOf(c)) <= 1

\* C2: driven by connects, join-rooms and disconnects only, after every event each
\* room's member set is exactly the set of clients whose latest join-room named
\* that room and who have not disconnected since.
C2_MembersAreLatestJoiners ==
  \A r \in RoomIds : Members(r) = {c \in ClientIds : lastJoin[c] = r}

\* C3: once a client's disconnect has been processed the client is not in the
\* registry, is in no room's member set, and no room is left whose only members
\* are disconnected clients.
C3_DisconnectCleansUp ==
  \A c \in cleaned :
    /\ c \notin DOMAIN clients
    /\ RoomsOf(c) = {}
    /\ \A r \in DOMAIN rooms : ~(rooms[r].clients \subseteq cleaned)

\* C4: between handlers every room in the room map has at least one member, and a
\* room the last handler removed had the leaving client as its only member.
C4_RoomsNonEmpty ==
  /\ \A r \in DOMAIN rooms : rooms[r].clients # {}
  /\ \A r \in DOMAIN pre.rooms \ DOMAIN rooms : pre.rooms[r].clients = {last.client}

\* C4 witness: a handler removed a room
C4_RoomRemoved ==
  /\ DOMAIN pre.rooms \ DOMAIN rooms # {}
  /\ \A r \in DOMAIN pre.rooms \ DOMAIN rooms : pre.rooms[r].clients = {last.client}

\* the last join-room named a room id that was deleted earlier and did not exist
JoinOfDeletedId ==
  /\ JoinHandled
  /\ last.roomId \in deleted
  /\ last.roomId \notin DOMAIN pre.rooms

\* C5: a join-room naming the id of an earlier deleted room creates a fresh room:
\* after the join its member set is exactly the joiner, it has no creator, and the
\* room-joined snapshot lists no client.
C5_ReusedIdIsFresh ==
  JoinOfDeletedId =>
    /\ last.roomId \in DOMAIN rooms
    /\ rooms[last.roomId].clients = {last.client}
    /\ rooms[last.roomId].creator = NULL
    /\ \A i \in Events(last.client, "room-joined") :
         sent[last.client][i].clients = {}

\* C5 witness: such a join was handled and its reply transmitted
C5_DeletedIdRejoined ==
  /\ JoinOfDeletedId
  /\ Events(last.client, "room-joined") # {}

\* C6: a join-room from a member of another room R1 removes it from R1 (R1 is
\* deleted if that empties it, otherwise each remaining member with an open
\* connection gets one client-left event), and afterwards the client is a member
\* of the target room and of no other room.
C6_JoinMovesClient ==
  (JoinHandled /\ PreRoomsOf(last.client) \ {last.roomId} # {}) =>
    /\ RoomsOf(last.client) = {last.roomId}
    /\ \A r1 \in PreRoomsOf(last.client) \ {last.roomId} :
         LET rest == pre.rooms[r1].clients \ {last.client}
         IN IF rest = {} THEN r1 \notin DOMAIN rooms
            ELSE /\ Members(r1) = rest
                 /\ \A d \in rest :
                      pre.readyState[d] = "OPEN" =>
                        Cardinality({i \in Events(d, "client-left") :
                                       sent[d][i].clientId = last.client}) = 1

\* C7: the room-joined reply to a join-room lists exactly the target room's
\* members after the join without the joiner; it is transmitted once when the
\* joiner's socket is open.
C7_SnapshotExcludesJoiner ==
  JoinHandled =>
    /\ Cardinality(Events(last.client, "room-joined")) =
         (IF pre.readyState[last.client] = "OPEN" THEN 1 ELSE 0)
    /\ \A i \in Events(last.client, "room-joined") :
         /\ sent[last.client][i].roomId = last.roomId
         /\ sent[last.client][i].clients = Members(last.roomId) \ {last.client}
         /\ last.client \notin sent[last.client][i].clients

\* C7 witness: a client re-joined the room it was already a member of and got
\* its reply
C7_Rejoined ==
  /\ JoinHandled
  /\ last.roomId \in PreRoomsOf(last.client)
  /\ Events(last.client, "room-joined") # {}

\* C8: on a join-room every other member of the target room with an open
\* connection gets exactly one client-joined event, naming the joiner and
\* carrying the updated member set; the joiner gets no client-joined event.
C8_OthersNotifiedOnce ==
  JoinHandled =>
    /\ \A d \in Members(last.roomId) \ {last.client} :
         pre.readyState[d] = "OPEN" =>
           /\ Cardinality(Events(d, "client-joined")) = 1
           /\ \A i \in Events(d, "client-joined") :
                /\ sent[d][i].clientId = last.client
                /\ sent[d][i].roomClients = Members(last.roomId)
                /\ last.client \in sent[d][i].roomClients
    /\ Events(last.client, "client-joined") = {}

\* C8 witness: a join-room into a room that has another member with an open
\* connection
C8_JoinedOccupiedRoom ==
  /\ JoinHandled
  /\ \E d \in Members(last.roomId) \ {last.client} : pre.readyState[d] = "OPEN"

\* C9: when a client sharing a room with others disconnects, each remaining
\* member with an open connection gets exactly one client-left event carrying
\* the member set without the leaver; a second cleanup of the same connection
\* changes nothing and sends nothing.
C9_LeftEventOnDisconnect ==
  DisconnectHandled =>
    IF last.client \in DOMAIN pre.clients
    THEN \A r \in PreRoomsOf(last.client) :
           \A d \in pre.rooms[r].clients \ {last.client} :
             pre.readyState[d] = "OPEN" =>
               /\ Cardinality(Events(d, "client-left")) = 1
               /\ \A i \in Events(d, "client-left") :
                    /\ sent[d][i].clientId = last.client
                    /\ sent[d][i].roomClients = pre.rooms[r].clients \ {last.client}
    ELSE /\ clients = pre.clients
         /\ rooms = pre.rooms
         /\ sent = NoSent

\* the welcome message that carries client id c
Welcome(c) == [type |-> "welcome", clientId |-> c,
               serverInfo |-> [ip |-> LocalIP, port |-> Port]]

\* C10: every connection is sent exactly one welcome, carrying its client id, as
\* the first message on it; the client is registered when it is sent, and no
\* inbound message of a connection is handled before its welcome.
C10_WelcomeFirst ==
  /\ \A c \in ClientIds :
       IF readyState[c] = "NONE"
       THEN welcomes[c] = 0 /\ firstSent[c] = NoMsg
       ELSE welcomes[c] = 1 /\ firstSent[c] = Welcome(c)
  /\ last.op = "connect" =>
       /\ last.client \in DOMAIN clients
       /\ sent[last.client] = <<Welcome(last.client)>>
  /\ last.op \in {"join-room", "create-room"} => welcomes[last.client] = 1

\* C10 witness: a connection that was welcomed is sent a later message
C10_WelcomedThenServed ==
  /\ last.op \in {"join-room", "create-room"}
  /\ sent[last.client] # <<>>
  /\ firstSent[last.client] = Welcome(last.client)
  /\ welcomes[last.client] = 1

\* the last handler was given a frame of this kind by a registered client
FrameHandled(op) == last.op = op /\ last.client \in DOMAIN pre.clients
\* client d was, when the last handler started, in a member set together with c
SharedRoom(c, d) == \E r \in PreRoomsOf(c) : d \in pre.rooms[r].clients

\* C11: a webrtc-offer, webrtc-answer or webrtc-ice-candidate from a client that
\* is in a room reaches every other member of that room whose connection is
\* open exactly once, with its kind and payload unchanged, and reaches nobody
\* else (not the sender, and nobody at all when the sender is in no room).
C11_SignalingReachesRoom ==
  FrameHandled("signaling") =>
    \A d \in ClientIds :
      LET due == /\ d # last.client
                 /\ pre.readyState[d] = "OPEN"
                 /\ SharedRoom(last.client, d)
      IN /\ Len(sent[d]) = IF due THEN 1 ELSE 0
         /\ due => /\ sent[d][1].type = inbound.value.type
                    /\ sent[d][1].sdp = inbound.value.sdp

\* C12: every relayed message has a from property equal to the id of the client
\* on whose connection it arrived, whatever properties the inbound object has.
C12_FromIsSender ==
  last.op \in {"signaling", "file-transfer"} =>
    \A d \in ClientIds : \A i \in 1..Len(sent[d]) : sent[d][i].from = last.client

\* the targetClient of the frame the last handler was given
Target == Field(inbound.value, "targetClient")
\* the copy of the inbound object a recipient is sent
IsRelayOf(msg, data) ==
  /\ msg.type = data.type
  /\ msg.transferId = data.transferId
  /\ msg.from = last.client
\* connection d was sent exactly one message, a copy of the inbound object
GotCopy(d) == Len(sent[d]) = 1 /\ IsRelayOf(sent[d][1], inbound.value)

C14_UnregisteredTargetDropped ==
  (last.op = "file-transfer" /\ Truthy(Target) /\ Target \notin DOMAIN pre.clients) =>
    /\ \A d \in ClientIds : sent[d] = <<>>
    /\ clients = pre.clients
    /\ rooms = pre.rooms

\* The dropped message came from a client whose room has another open member,
\* and named a client id that is not in the registry.
C14_DroppedInOccupiedRoom ==
  /\ FrameHandled("file-transfer")
  /\ Truthy(Target)
  /\ Target \notin DOMAIN pre.clients
  /\ Truthy(pre.clients[last.client].room)
  /\ \E d \in ClientIds \ {last.client} :
        /\ pre.readyState[d] = "OPEN"
        /\ d \in pre.rooms[pre.clients[last.client].room].clients

\* the error message the 'message' listener's catch block sends
ErrorReply == [type |-> "error", message |-> "Invalid JSON message"]
\* the last handler wrote neither map and closed no socket
NothingChanged ==
  /\ clients = pre.clients
  /\ rooms = pre.rooms
  /\ readyState = pre.readyState

\* C15: a well-formed message of a kind the switch does not list changes neither
\* the registry nor the rooms and sends nothing to anybody, the sender
\* included; the sender stays registered with its socket as it was.
C15_UnknownKindIgnored ==
  last.op = "unknown" =>
    /\ NothingChanged
    /\ \A d \in ClientIds : sent[d] = <<>>
    /\ last.client \in DOMAIN pre.clients => last.client \in DOMAIN clients

\* An unknown kind arrived from an open client whose room has another open member.
C15_UnknownFromMember ==
  /\ FrameHandled("unknown")
  /\ pre.readyState[last.client] = "OPEN"
  /\ \E d \in ClientIds \ {last.client} :
        pre.readyState[d] = "OPEN" /\ SharedRoom(last.client, d)

C17_NoExceptionEscapes ==
  /\ ~uncaught
  /\ last.op = "invalid" =>
        /\ \A d \in ClientIds \ {last.client} : sent[d] = <<>>
        /\ sent[last.client] \in {<<>>, <<ErrorReply>>}

\* The text null arrived from a registered client: reading its type threw.
C17_NullDereferenced ==
  /\ FrameHandled("invalid")
  /\ inbound = NullFrame
  /\ sent[last.client] = <<ErrorReply>>

\* the file the sender of transfer t cuts into n chunks: the chunks in index order
RECURSIVE Original(_, _)
Original(t, n) == IF n = 0 THEN <<>> ELSE Original(t, n - 1) \o Chunk(t, n - 1)
\* the last receiving handler was given a chunk message of a transfer in progress
ChunkStored == rx.op = "chunk" /\ rx.had
\* the last receiving handler completed a transfer
Completed == downloads # <<>>

C19_CompletesOnce ==
  /\ Len(downloads) <= 1
  /\ \A t \in TransferIds : completions[t] <= 1

\* A chunk message arrived for a transfer that had completed, and was ignored.
C19_ChunkAfterCompletion ==
  /\ rx.op = "chunk"
  /\ ~rx.had
  /\ completions[rx.data.transferId] = 1
  /\ downloads = <<>>

\* C20: a chunk message of a transfer in progress completes it exactly when it
\* carries the last-chunk flag or brings the received-count to the declared
\* total, whichever happens first.
C20_EitherConditionCompletes ==
  ChunkStored => (Completed <=> (rx.data.isLast \/ rx.before + 1 = rx.total))
\* the last handler was cancelFileTransfer, called by a progress control
Cancelled == rx.op = "cancel"

\* C21: after a transfer is cancelled through its progress control no session
\* exists for its transfer id, and a chunk message that arrives for it afterwards
\* changes nothing and completes nothing.
C21_CancelRemovesSession ==
  /\ Cancelled =>
        \A t \in TransferIds :
          TemplateString(t) = rx.data.transferId => t \notin DOMAIN activeTransfers
  /\ (rx.op = "chunk" /\ cancelled[rx.data.transferId]) =>
        ~rx.changed /\ downloads = <<>>
\* the sessions whose sender the server has reported gone
Orphaned == {t \in DOMAIN activeTransfers : activeTransfers[t].from \in left}

\* C22: when the sender of an unfinished transfer disconnects, the sessions it
\* was sending are cancelled: a session whose sender has left does not stay in
\* the receiver's table forever.
C22_OrphansCancelled == (Orphaned # {}) ~> (Orphaned = {})
\* the last receiving handler was given a chunk or completion message of a
\* transfer id that had no session
NoSessionMessage == rx.op \in {"chunk", "complete"} /\ ~rx.had

\* C23: a chunk or completion message for a transfer id without a session is a
\* silent no-op: nothing is thrown, no session is created and nothing completes,
\* also on a page that never received a start message.
C23_NoSessionNoOp ==
  NoSessionMessage => ~rx.threw /\ ~rx.changed /\ downloads = <<>>
\* the last chunk message was stored while a session of another transfer was open
Interleaved == ChunkStored /\ rx.concurrent

\* C24: a chunk message that arrives while another transfer is in progress
\* updates its own session only, and its transfer completes after all its own
\* chunks have arrived, with exactly its own chunks in index order.
C24_TransfersIndependent ==
  Interleaved =>
    /\ rx.othersSame
    /\ (Completed /\ intact[rx.data.transferId]) =>
          /\ downloads[1].transferId = rx.data.transferId
          /\ rx.before + 1 = rx.total
          /\ downloads[1].href = Original(rx.data.transferId, rx.total)

\* A transfer completed, all its chunks in place, while another transfer that
\* had received chunks of its own was still in progress.
C24_CompletedBesideAnother ==
  /\ Interleaved /\ Completed /\ intact[rx.data.transferId]
  /\ rx.total >= 1
  /\ \E u \in DOMAIN activeTransfers : activeTransfers[u].receivedChunks >= 1

Delivered(d) == {outbox[d][i] : i \in 1..Len(outbox[d])}
\* the last handler relayed a file-transfer frame
RelayHandled == last.op = "file-transfer" /\ inbound.syntax = "object"
\* whom the frame the last handler relayed was addressed to
LastRecipients == Recipients(pre, last.client, inbound.value)

StatusProbed == last.op = "http" /\ httpResponse.kind = "status"

\* C27: a status probe changes neither the registry nor any room and sends no
\* message to any client, and the counts it reports are the number of registered
\* clients and of rooms at the time of the request.
C27_StatusProbeReadOnly ==
  StatusProbed =>
    /\ clients = pre.clients
    /\ rooms = pre.rooms
    /\ readyState = pre.readyState
    /\ sent = NoSent
    /\ httpResponse.clients = Cardinality(DOMAIN pre.clients)
    /\ httpResponse.rooms = Cardinality(DOMAIN pre.rooms)

\* A probe answered while a registered client's socket was no longer open and a
\* room existed.
C27_ProbedWithClosingClient ==
  /\ StatusProbed
  /\ \E c \in DOMAIN pre.clients : pre.readyState[c] # "OPEN"
  /\ DOMAIN pre.rooms # {}

\* the last handler was given a device-discovery frame by a registered client
DiscoveryHandled == last.op = "device-discovery" /\ last.client \in DOMAIN pre.clients
\* the registry entries a device list is to hold for requester c
OtherDevices(c) == {[id |-> id, room |-> pre.clients[id].room] :
                      id \in DOMAIN pre.clients \ {c}}

\* C28: the reply to a device-discovery lists exactly the registered clients
\* other than the requester, each with its room reference, goes to the requester
\* only, and the request changes neither the registry nor any room.
C28_DeviceListSnapshot ==
  DiscoveryHandled =>
    /\ clients = pre.clients
    /\ rooms = pre.rooms
    /\ \A d \in ClientIds \ {last.client} : sent[d] = <<>>
    /\ Len(sent[last.client]) <= 1
    /\ pre.readyState[last.client] = "OPEN" =>
          /\ Len(sent[last.client]) = 1
          /\ sent[last.client][1].type = "device-list"
          /\ sent[last.client][1].devices = OtherDevices(last.client)

\* A device list was sent that holds another client with a room of its own.
C28_ListedRoomHolder ==
  /\ DiscoveryHandled
  /\ sent[last.client] # <<>>
  /\ \E dev \in sent[last.client][1].devices : Truthy(dev.room)

\* the last handler was given a create-room frame by a registered client
CreateHandled == last.op = "create-room" /\ last.client \in DOMAIN pre.clients
\* the room ids the last handler added to the room map
NewRooms == DOMAIN rooms \ DOMAIN pre.rooms

\* C29: a create-room from a registered client adds one room under an id never
\* used before, with the creator as its only member and as its creator, makes it
\* the client's room reference, and sends the creator one room-created reply
\* (when its socket is open) whose roomId and qrData name the new room, the
\* server's address and its port; no other client is sent anything.
C29_RoomCreatedForCreator ==
  CreateHandled =>
    /\ Cardinality(NewRooms) = 1
    /\ \A r \in NewRooms :
          /\ r \notin deleted
          /\ rooms[r].clients = {last.client}
          /\ rooms[r].creator = last.client
          /\ clients[last.client].room = r
          /\ Len(sent[last.client]) =
                (IF pre.readyState[last.client] = "OPEN" THEN 1 ELSE 0)
          /\ \A i \in 1..Len(sent[last.client]) :
                /\ sent[last.client][i].type = "room-created"
                /\ sent[last.client][i].roomId = r
                /\ sent[last.client][i].qrData.roomId = r
                /\ sent[last.client][i].qrData.serverIP = LocalIP
                /\ sent[last.client][i].qrData.port = Port
    /\ \A d \in ClientIds \ {last.client} : sent[d] = <<>>

\* A client that held a room created another one while another client's socket
\* was open, and got its reply.
C29_CreatedWhileOthersOpen ==
  /\ CreateHandled
  /\ sent[last.client] # <<>>
  /\ \E d \in DOMAIN pre.clients \ {last.client} : pre.readyState[d] = "OPEN"
  /\ Truthy(pre.clients[last.client].room)

\* C30: the sender bounds every chunk send by a timeout: a transfer one of whose
\* chunk sends did not finish within the bound ends as a failure, never as a
\* success.
C30_SlowSendFails == tx.late # {} => tx.outcome # "success"

\* the last handler was given a join-room object without a roomId property by a
\* registered client
JoinWithoutRoomId ==
  /\ last.op = "partial"
  /\ HasType(inbound.value, "join-room")
  /\ "roomId" \notin DOMAIN inbound.value
  /\ last.client \in DOMAIN pre.clients

\* C31: a join-room message without a roomId is rejected: no room is created or
\* changed, the sender's membership and room reference stay as they were, and
\* the sender is sent exactly one message, an error.
C31_JoinWithoutRoomIdRejected ==
  JoinWithoutRoomId =>
    /\ rooms = pre.rooms
    /\ clients = pre.clients
    /\ pre.readyState[last.client] = "OPEN" =>
          /\ Len(sent[last.client]) = 1
          /\ sent[last.client][1].type = "error"

\* C32: in every reachable state a registered client's room reference and the
\* member sets agree: the reference is room R exactly when the client's id is in
\* R's member set, and it is null exactly when the id is in no member set.
C32_ReferenceAgreesWithMembers ==
  \A c \in DOMAIN clients :
    /\ \A r \in DOMAIN rooms : (clients[c].room = r) <=> (c \in rooms[r].clients)
    /\ (clients[c].room = NULL) <=> (RoomsOf(c) = {})

\* the member lists the last handler transmitted in room-joined, client-joined
\* and client-left messages
ListedMembers ==
  UNION {UNION {IF sent[d][i].type = "room-joined" THEN sent[d][i].clients
                ELSE IF sent[d][i].type \in {"client-joined", "client-left"}
                     THEN sent[d][i].roomClients
                     ELSE {} : i \in 1..Len(sent[d])} : d \in ClientIds}

\* C33: in every reachable state every id in a room's member set, and so every
\* id listed in a room-joined, client-joined or client-left message, is the id of
\* a registered client: no disconnected client remains a member of a room.
C33_MembersAreRegistered ==
  /\ \A r \in DOMAIN rooms : rooms[r].clients \subseteq DOMAIN clients
  /\ ListedMembers \subseteq DOMAIN clients

\* the members of the room the sender's reference named when the last handler
\* started
SenderRoomMembers ==
  IF /\ last.client \in DOMAIN pre.clients
     /\ pre.clients[last.client].room \in DOMAIN pre.rooms
  THEN pre.rooms[pre.clients[last.client].room].clients
  ELSE {}

\* C34: no relayed message, signaling or file-transfer, targeted or broadcast, is
\* delivered to a client that is not a member of the sender's room at the time
\* the server processes it.
C34_RelayStaysInRoom ==
  last.op \in {"signaling", "file-transfer"} =>
    \A d \in ClientIds : sent[d] # <<>> => d \in SenderRoomMembers

\* the slots of a session's array, among those of index 0..totalChunks-1, that
\* hold a chunk
FilledSlots(transfer) ==
  {k \in 0..(transfer.totalChunks - 1) :
     k \in DOMAIN transfer.chunks /\ transfer.chunks[k] # HOLE}

\* C35: in every active session the received-count equals the number of filled
\* slots of index 0..total-1, whatever chunk messages came (duplicated indices
\* and indices out of range included); hence a completion triggered by the count
\* reaching the declared total never reconstructs a file with an empty slot.
C35_CountIsFilledSlots ==
  /\ \A t \in DOMAIN activeTransfers :
        activeTransfers[t].receivedChunks = Cardinality(FilledSlots(activeTransfers[t]))
  /\ (rx.op = "chunk" /\ ~rx.data.isLast /\ downloads # <<>>) =>
        downloads[1].href = Original(rx.data.transferId, rx.total)

\* the handlers of 'message' events
MessageOps == {"join-room", "create-room", "signaling", "file-transfer",
               "device-discovery", "unknown", "invalid", "partial"}
\* the last handler was given a message on a connection whose client had been
\* unregistered by its close or error listener
LateMessageHandled == last.op \in MessageOps /\ last.client \in cleaned

\* C36: a message event handled for a connection whose client has already been
\* unregistered changes neither the registry nor the rooms and sends no message
\* to any client.
C36_LateMessageIgnored ==
  LateMessageHandled =>
    /\ clients = pre.clients
    /\ rooms = pre.rooms
    /\ \A d \in ClientIds : sent[d] = <<>>

\* A create-room message came on a connection whose error listener had
\* unregistered its client, while another client's socket was open.
C36_CreateAfterCleanup ==
  /\ last.op = "create-room"
  /\ last.client \in cleaned
  /\ last.client \notin DOMAIN pre.clients
  /\ \E d \in DOMAIN clients : readyState[d] = "OPEN"

\* transfer t was started and each of its declared chunks has been delivered
FullyDelivered(t) ==
  \/ /\ t \in DOMAIN activeTransfers
     /\ activeTransfers[t].receivedChunks = activeTransfers[t].totalChunks
  \/ completions[t] > 0

\* C37: a transfer that was started at the receiver and whose declared chunks,
\* indices 0..N-1, were each delivered once eventually completes and has its
\* session removed, for every declared count N, 0 included.
C37_DeliveredTransferCompletes ==
  \A t \in TransferIds :
    FullyDelivered(t) ~> (t \notin DOMAIN activeTransfers /\ completions[t] = 1)

\* the Peer objects that were made and not destroyed
LivePeers == {p \in DOMAIN conn.peers : conn.peers[p].state \in {"connecting", "open"}}

\* C38: when the connection to the local server is lost the fallback to the
\* external peer connection is started once, also when the WebSocket emits both
\* error and close: at most one Peer object is live afterwards.
C38_OneFallbackPeer == Cardinality(LivePeers) <= 1

\* C39: retryPeerConnection starts at most three attempts, whatever timeouts
\* and network errors come; the call that finds the counter past three sets the
\* status to disconnected, and no connection is attempted after it.
C39_RetriesBounded ==
  /\ conn.attempts <= RetryLimit
  /\ conn.gaveUp => conn.status = "disconnected"
  /\ ~conn.lateAttempt

====
